---- MODULE Spec2Model ----
(***************************************************************************)
(* A model of alma.AlmaVar (src/alma/alma.py): one watched variable that   *)
(* is shared by several threads.  Every thread calls the public methods;   *)
(* a call is cut into the steps that other threads can interleave with:    *)
(* the sections guarded by self._lock, each iteration of the validator     *)
(* loop (the validator list is appended to without the lock) and each      *)
(* iteration of the listener loop (run after the lock is released).        *)
(*                                                                         *)
(* Values are Python ints, which are immutable: copy.deepcopy returns an   *)
(* int unchanged, so both branches of _snapshot yield the value itself.    *)
(* The timestamp field of ChangeRecord is not part of this model.          *)
(***************************************************************************)
EXTENDS Integers, Sequences, FiniteSets, TLC

VARIABLES
    alive,       \* TRUE once AlmaVar.__init__ has run
    history,     \* self._history: sequence of ChangeRecord
    frozen,      \* self._frozen
    validators,  \* self._validators: sequence of validator callables
    listeners,   \* self._listeners: sequence of listener callables
    lock,        \* self._lock (threading.RLock): [owner, count]
    th,          \* per thread: the call in progress, its locals and its log
    ctor,        \* history variable: the initial value __init__ was given,
                 \* whether a validator it was given rejects that value, and
                 \* the callables it called
    appended,    \* history variable: appends to self._history made by set
    cp,          \* the objects of the copy-on-store model (see CopySpec)
    entries,     \* AlmaRegistry._vars: name -> the variable registered
    instances,   \* the AlmaVar objects the registry has constructed
    rlock,       \* AlmaRegistry._lock: the thread that holds it, or ""
    rt,          \* per thread: its call of the registry
    counter,     \* the history of the counter the workers increment
    xlock,       \* the workers' own lock: the worker that holds it, or 0
    wk,          \* per worker: its position in the increment loop
    now,         \* the reading of the clock
    stamped,     \* the history of the variable whose records are stamped
    slock,       \* that variable's lock: the thread that holds it, or ""
    ts,          \* per thread: its call on that variable
    lreg,        \* the lock of the registry whose variables are locked too
    lvar,        \* per variable of that registry: its RLock, [owner, count]
    lmap,        \* the names registered in that registry
    lfrozen,     \* per variable of that registry: self._frozen
    lhist,       \* per variable of that registry: the values of its history
    lt,          \* per thread: its call on that registry or on a variable
    lists,       \* the list objects callers and variables hold callables in
    refs,        \* who holds which list: the caller, and each variable
    last         \* the last call made on the variables that share lists

mainVars == <<alive, history, frozen, validators, listeners, lock, th, ctor,
              appended>>

copyVars == <<cp>>

regVars == <<entries, instances, rlock, rt>>

counterVars == <<counter, xlock, wk>>

clockVars == <<now, stamped, slock, ts>>

lockVars == <<lreg, lvar, lmap, lfrozen, lhist, lt>>

listVars == <<lists, refs, last>>

(* The state of the further models of this module, which the calls of the *)
(* shared variable above leave alone.                                      *)
ext == <<copyVars, regVars, counterVars, clockVars, lockVars, listVars>>

vars == <<mainVars, ext>>

----------------------------------------------------------------------------
(* Bounds of the model *)

MaxHistory == 3      \* records a history may hold

Threads == {"t1", "t2"}
Values == {-1, 1}

(* Optional[...]: None is the empty tuple, a present value x is <<x>>. *)
None == <<>>
Some(x) == <<x>>
TheValue(o) == o[1]

SetLabels == {None}
RollbackLabels == {None, Some(""), Some("a")}

(* A call is started only while the history has room for its record, so a  *)
(* history has at most MaxHistory - 1 records when rollback checks its     *)
(* index: the indices cover -1, every valid index and the history length.  *)
Indices == -1 .. MaxHistory - 1

(* The callables an application registers, each at most once.  A validator *)
(* returns normally or raises ValueError; a listener returns normally or   *)
(* raises an Exception.                                                    *)
ValidatorFns == {"nonneg", "nonpos"}
ListenerFns == {"log", "boom"}

Rejects(fn, value) ==
    CASE fn = "nonneg" -> value < 0
      [] fn = "nonpos" -> value > 0

ListenerRaises(fn) == fn = "boom"

CtorValidators == {<<>>, <<"nonneg">>}
CtorListeners == {<<>>, <<"boom">>}

----------------------------------------------------------------------------
(* Data model *)

ChangeRecord(index, value, label) ==
    [index |-> index, value |-> value, label |-> label]

DeepCopy(value) == value

Snapshot(value) == DeepCopy(value)

IndexText(i) == ToString(i)

DefaultRollbackLabel(index) == "rollback to index " \o IndexText(index)

(* Python truthiness of an Optional[str]: None and "" are falsy. *)
Truthy(label) == label # None /\ TheValue(label) # ""

(* label or f"rollback to index {index}" *)
RollbackLabel(label, index) ==
    IF Truthy(label) THEN label ELSE Some(DefaultRollbackLabel(index))

----------------------------------------------------------------------------
(* threading.RLock *)

Unlocked == [owner |-> "", count |-> 0]

(* A variable without its lock: every thread enters at once. *)
CanAcquireUnguarded(t) == TRUE

CanAcquire(t) == lock.owner = "" \/ lock.owner = t

Acquired(t) == [owner |-> t, count |-> lock.count + 1]

Released(l) ==
    IF l.count = 1 THEN Unlocked ELSE [l EXCEPT !.count = l.count - 1]

----------------------------------------------------------------------------
(* Threads *)

Idle ==
    [pc |-> "idle", op |-> "", value |-> 0, label |-> None, rlabel |-> None,
     index |-> 0,
     vi |-> 0, li |-> 0, record |-> None, outcome |-> "",
     seenLen |-> -1, prior |-> None, vrun |-> <<>>, notified |-> <<>>,
     wasFrozen |-> FALSE]

(* What the fields of a thread hold:                                       *)
(*   pc, op        where the thread is in its call, and which call it made *)
(*   value, label, rlabel, index   the arguments; rlabel is the label set  *)
(*                 is called with                                          *)
(*   vi, li        position of the validator loop and of the listener loop *)
(*   record        set's local  record                                     *)
(*   outcome       "ok" when the call returned, or the exception it raised *)
(* and, kept for the properties only:                                      *)
(*   seenLen       len(self._history) when rollback checked its index      *)
(*   prior         the current value when set acquired the lock            *)
(*   vrun          the validators this call has run, in order              *)
(*   notified      the listener calls this call has made, in order         *)
(*   wasFrozen     self._frozen when freeze or thaw was called             *)

Mutating == {"set_lock", "set_validate", "set_append"}

InFlight == Cardinality({t \in Threads : th[t].pc \in Mutating})

Room == Len(history) + InFlight < MaxHistory

(* A finished call is seen by its caller (Return) before any other step is *)
(* taken: a thread in "done" differs from an idle one only in the result   *)
(* it shows, so no interleaving of the program is lost.                    *)
NoneDone == \A u \in Threads : th[u].pc # "done"

Ready(t, pc) == th[t].pc = pc /\ NoneDone

NotIn(fn, fns) == \A i \in 1 .. Len(fns) : fns[i] # fn

Raise(s, error) == [s EXCEPT !.pc = "done", !.outcome = error]

(* The further models are not started. *)
CopyOff == [on |-> FALSE]

(* The names an application registers. *)
Names == {"x", "y"}

RegIdle ==
    [pc |-> "idle", op |-> "", name |-> "", value |-> 0, overwrite |-> FALSE,
     var |-> 0, outcome |-> "", absentAtCall |-> FALSE, undisturbed |-> FALSE]

(* What the fields of a registry call hold:                                *)
(*   pc, op        where the thread is in its call, and which call it made *)
(*   name, value, overwrite   the arguments; value is 0 again once the     *)
(*                 variable is constructed or the call has failed          *)
(*   var           watch's local  var, or what get_var returned; 0 is none *)
(*   outcome       "ok" when the call returned, or the exception it raised *)
(* and, kept for the properties only:                                      *)
(*   absentAtCall  the name was not registered when the call was made      *)
(*   undisturbed   no unregister has removed the name since the call       *)

(* AlmaRegistry.__init__: no name registered, the lock free. *)
RegEmpty ==
    /\ entries = [n \in Names |-> 0]
    /\ instances = <<>>
    /\ rlock = ""
    /\ rt = [t \in Threads |-> RegIdle]

(* test_concurrent_sets_are_safe: the workers, each of which increments *)
(* the counter Increments times.                                        *)
NumWorkers == 3
Increments == 2

Workers == 1 .. NumWorkers

(* The record of the model of copy on store, of the registry's variables, *)
(* and of the counter: its index and its value.                           *)
CopyRecord(index, ref) == [index |-> index, value |-> ref]

(* var = AlmaVar("counter", 0, deep_copy=False); lock = threading.Lock(); *)
(* no worker has started.                                                  *)
CounterStart ==
    /\ counter = <<CopyRecord(0, 0)>>
    /\ xlock = 0
    /\ wk = [w \in Workers |-> [pc |-> "acquire", done |-> 0, current |-> 0]]

(* A record with the reading of the clock when it was created. *)
StampedRecord(index, value, timestamp) ==
    [index |-> index, value |-> value, timestamp |-> timestamp]

StampIdle == [pc |-> "idle", value |-> 0, timestamp |-> 0]

(* AlmaVar("t", 0) constructed at reading 0 of the clock. *)
ClockStart ==
    /\ now = 0
    /\ stamped = <<StampedRecord(0, 0, 0)>>
    /\ slock = ""
    /\ ts = [t \in Threads |-> StampIdle]

(* The variables of the registry whose locks are modelled: "x", whose    *)
(* validator looks "max" up in the registry and reads it, and "max".     *)
LVars == {"x", "max"}

LockIdle == [pc |-> "idle", op |-> "", var |-> "", todo |-> <<>>, value |-> 0]

(* What the fields of such a call hold:                                   *)
(*   pc, op     where the thread is in its call, and which call it made   *)
(*   var        the variable, or the name, the call is about              *)
(*   todo       snapshot: the names whose variable is still to be read    *)
(*   value      set: the value to store                                   *)

(* reg = AlmaRegistry(); reg.watch("max", 1);                              *)
(* reg.watch("x", 1, validators=[below_max]); lmap lists the names in the  *)
(* order of the dict.                                                      *)
LockStart ==
    /\ lreg = ""
    /\ lvar = [v \in LVars |-> Unlocked]
    /\ lmap = <<"max", "x">>
    /\ lfrozen = [v \in LVars |-> FALSE]
    /\ lhist = [v \in LVars |-> <<1>>]
    /\ lt = [t \in Threads |-> LockIdle]

(* No list exists yet, no variable is constructed. *)
ListStart ==
    /\ lists = <<>>
    /\ refs = [h \in {"caller", "a", "b"} |->
                  [validators |-> 0, listeners |-> 0]]
    /\ last = [op |-> "", var |-> "", kind |-> ""]

ExtIdle ==
    /\ cp = CopyOff /\ RegEmpty /\ CounterStart /\ ClockStart
    /\ LockStart /\ ListStart

Init ==
    /\ alive = FALSE
    /\ history = <<>>
    /\ frozen = FALSE
    /\ validators = <<>>
    /\ listeners = <<>>
    /\ lock = Unlocked
    /\ th = [t \in Threads |-> Idle]
    /\ ctor = None
    /\ appended = 0
    /\ ExtIdle

(* A constructor that stores the initial value through set(): it runs the  *)
(* validators it was given (and fails when one rejects), stores the record *)
(* with set's label and notifies the listeners.                            *)
ConstructThroughSet(initial_value, vs, ls) ==
    /\ ~alive
    /\ \A i \in 1 .. Len(vs) : ~Rejects(vs[i], initial_value)
    /\ alive' = TRUE
    /\ validators' = vs
    /\ listeners' = ls
    /\ frozen' = FALSE
    /\ history' = <<ChangeRecord(0, Snapshot(initial_value), None)>>
    /\ ctor' = Some([value |-> initial_value, rejected |-> FALSE,
                     called |-> vs \o ls])
    /\ UNCHANGED <<lock, th, appended>>
    /\ UNCHANGED ext

(* AlmaVar.__init__: the initial record is stored without going through   *)
(* set(), so that no validator and no listener is called.                  *)
Construct(initial_value, vs, ls) ==
    /\ ~alive
    /\ alive' = TRUE
    /\ validators' = vs
    /\ listeners' = ls
    /\ frozen' = FALSE
    /\ history' = <<ChangeRecord(0, Snapshot(initial_value), Some("initial"))>>
    /\ ctor' = Some([value |-> initial_value,
                     rejected |-> \E i \in 1 .. Len(vs) :
                                     Rejects(vs[i], initial_value),
                     called |-> <<>>])
    /\ UNCHANGED <<lock, th, appended>>
    /\ UNCHANGED ext

(* Python's list indexing, for -len <= i < len: a negative index counts    *)
(* from the end.                                                           *)
PyIndex(h, i) == IF i < 0 THEN h[Len(h) + i + 1] ELSE h[i + 1]

(* The target is read one position too low. *)
TargetValueOffByOne(h, index) == PyIndex(h, index - 1).value

(* target_value = self._history[index].value *)
TargetValue(h, index) == PyIndex(h, index).value

(* get(): with self._lock: return self._history[-1].value *)
CurrentValue == PyIndex(history, -1).value

(* set(value, label=...): the call is made; its body starts at SetLock. *)
CallSet(t, value, label) ==
    /\ alive /\ Ready(t, "idle")
    /\ Room
    /\ th' = [th EXCEPT ![t] = [Idle EXCEPT !.pc = "set_lock", !.op = "set",
                                           !.value = value, !.label = label,
                                           !.rlabel = label]]
    /\ UNCHANGED <<alive, history, frozen, validators, listeners, lock, ctor,
                   appended>>
    /\ UNCHANGED ext

(* set without its frozen check. *)
SetLockUnchecked(t) ==
    /\ Ready(t, "set_lock")
    /\ CanAcquire(t)
    /\ th' = [th EXCEPT ![t].pc = "set_validate", ![t].vi = 0,
                        ![t].prior = Some(CurrentValue)]
    /\ lock' = Acquired(t)
    /\ UNCHANGED <<alive, history, frozen, validators, listeners, ctor, appended>>
    /\ UNCHANGED ext

(* set: with self._lock: if self._frozen: raise FrozenError *)
SetLock(t) ==
    /\ Ready(t, "set_lock")
    /\ CanAcquire(t)
    /\ IF frozen
       THEN /\ th' = [th EXCEPT ![t] = Raise([@ EXCEPT !.prior = Some(CurrentValue)],
                                              "FrozenError")]
            /\ lock' = Released(Acquired(t))
       ELSE /\ th' = [th EXCEPT ![t].pc = "set_validate", ![t].vi = 0,
                                ![t].prior = Some(CurrentValue)]
            /\ lock' = Acquired(t)
    /\ UNCHANGED <<alive, history, frozen, validators, listeners, ctor, appended>>
    /\ UNCHANGED ext

(* A validator loop that goes on after a validator has raised. *)
SetValidateSwallowing(t) ==
    /\ Ready(t, "set_validate")
    /\ th[t].vi < Len(validators)
    /\ th' = [th EXCEPT ![t].vi = @ + 1,
                        ![t].vrun = Append(@, validators[th[t].vi + 1])]
    /\ UNCHANGED <<alive, history, frozen, validators, listeners, lock, ctor,
                   appended>>
    /\ UNCHANGED ext

(* set: one iteration of  for validate in self._validators: validate(value) *)
SetValidate(t) ==
    /\ Ready(t, "set_validate")
    /\ th[t].vi < Len(validators)
    /\ LET fn == validators[th[t].vi + 1]
           s == [th[t] EXCEPT !.vi = @ + 1, !.vrun = Append(@, fn)]
       IN IF Rejects(fn, th[t].value)
          THEN /\ th' = [th EXCEPT ![t] = Raise(s, "ValueError")]
               /\ lock' = Released(lock)
          ELSE /\ th' = [th EXCEPT ![t] = s]
               /\ lock' = lock
    /\ UNCHANGED <<alive, history, frozen, validators, listeners, ctor, appended>>
    /\ UNCHANGED ext

(* set: the validator loop is exhausted; snapshot = self._snapshot(value);  *)
(* record = ChangeRecord(index=len(self._history), value=snapshot, ...)    *)
SetSnapshot(t) ==
    /\ Ready(t, "set_validate")
    /\ th[t].vi >= Len(validators)
    /\ th' = [th EXCEPT ![t].pc = "set_append",
                        ![t].record = Some(ChangeRecord(Len(history),
                                                        Snapshot(th[t].value),
                                                        th[t].rlabel))]
    /\ UNCHANGED <<alive, history, frozen, validators, listeners, lock, ctor,
                   appended>>
    /\ UNCHANGED ext

(* The newest record is overwritten instead of a record being appended. *)
AppendedInPlace(h, record) == [h EXCEPT ![Len(h)] = record]

(* list.append *)
Appended(h, record) == Append(h, record)

(* set whose listener loop is inside the with block: the lock is kept. *)
SetAppendKeepingLock(t) ==
    /\ Ready(t, "set_append")
    /\ history' = Appended(history, TheValue(th[t].record))
    /\ th' = [th EXCEPT ![t].pc = "set_notify", ![t].li = 0]
    /\ appended' = appended + 1
    /\ UNCHANGED <<alive, frozen, validators, listeners, ctor, lock>>
    /\ UNCHANGED ext

(* set: self._history.append(record), and the with block is left *)
SetAppend(t) ==
    /\ Ready(t, "set_append")
    /\ history' = Appended(history, TheValue(th[t].record))
    /\ lock' = Released(lock)
    /\ th' = [th EXCEPT ![t].pc = "set_notify", ![t].li = 0]
    /\ appended' = appended + 1
    /\ UNCHANGED <<alive, frozen, validators, listeners, ctor>>
    /\ UNCHANGED ext

(* The listeners are handed the newest record of the history. *)
NotifiedLatest(t) == PyIndex(history, -1)

(* listener(self, record): record is set's local, the record it appended *)
NotifiedRecord(t) == TheValue(th[t].record)

(* The call of a listener, as the properties see it. *)
ListenerCall(t, fn) ==
    [fn |-> fn, record |-> NotifiedRecord(t), raised |-> ListenerRaises(fn)]

(* A listener loop without its try/except: a listener's exception ends set. *)
SetNotifyPropagating(t) ==
    /\ Ready(t, "set_notify")
    /\ th[t].li < Len(listeners)
    /\ LET fn == listeners[th[t].li + 1]
           s == [th[t] EXCEPT !.li = @ + 1,
                              !.notified = Append(@, ListenerCall(t, fn))]
       IN th' = [th EXCEPT ![t] = IF ListenerRaises(fn)
                                  THEN Raise(s, "RuntimeError") ELSE s]
    /\ UNCHANGED <<alive, history, frozen, validators, listeners, lock, ctor,
                   appended>>
    /\ UNCHANGED ext

(* set: one iteration of  for listener in self._listeners, whose body is   *)
(* try: listener(self, record) except Exception: pass                      *)
SetNotify(t) ==
    /\ Ready(t, "set_notify")
    /\ th[t].li < Len(listeners)
    /\ LET fn == listeners[th[t].li + 1]
       IN th' = [th EXCEPT ![t].li = @ + 1,
                           ![t].notified = Append(@, ListenerCall(t, fn))]
    /\ UNCHANGED <<alive, history, frozen, validators, listeners, lock, ctor,
                   appended>>
    /\ UNCHANGED ext

(* set: the listener loop is exhausted; return self *)
SetReturn(t) ==
    /\ Ready(t, "set_notify")
    /\ th[t].li >= Len(listeners)
    /\ th' = [th EXCEPT ![t].pc = "done", ![t].outcome = "ok"]
    /\ UNCHANGED <<alive, history, frozen, validators, listeners, lock, ctor,
                   appended>>
    /\ UNCHANGED ext

(* A range check that forgets the negative indices. *)
OutOfRangeUpperOnly(index, h) == index >= Len(h)

(* index < 0 or index >= len(self._history) *)
OutOfRange(index, h) == index < 0 \/ index >= Len(h)

(* The workload has one rollback or reset in flight at a time; sets, and   *)
(* every other call, run concurrently with it.                             *)
NoRollbackInFlight == \A u \in Threads : th[u].op \notin {"rollback", "reset"}

(* A rollback that stores the target value itself, without calling set:   *)
(* it creates the record under its own lock and runs no validator.         *)
RollbackBodyUnvalidated(t, op, index, label) ==
    /\ alive /\ Ready(t, "idle")
    /\ Room
    /\ NoRollbackInFlight
    /\ CanAcquire(t)
    /\ LET s == [Idle EXCEPT !.op = op, !.index = index, !.label = label]
       IN IF frozen
          THEN /\ th' = [th EXCEPT ![t] = Raise(s, "FrozenError")]
               /\ lock' = Released(Acquired(t))
          ELSE IF OutOfRange(index, history)
          THEN /\ th' = [th EXCEPT ![t] = Raise([s EXCEPT !.seenLen = Len(history)],
                                                "RollbackError")]
               /\ lock' = Released(Acquired(t))
          ELSE /\ th' = [th EXCEPT ![t] =
                            [s EXCEPT !.pc = "set_append",
                                      !.seenLen = Len(history),
                                      !.value = TargetValue(history, index),
                                      !.rlabel = RollbackLabel(label, index),
                                      !.prior = Some(CurrentValue),
                                      !.record = Some(ChangeRecord(
                                          Len(history),
                                          Snapshot(TargetValue(history, index)),
                                          RollbackLabel(label, index)))]]
               /\ lock' = Acquired(t)
    /\ UNCHANGED <<alive, history, frozen, validators, listeners, ctor, appended>>
    /\ UNCHANGED ext

(* rollback(index, label=...): the with block (frozen check, range check,  *)
(* read of the target value), then rollback_label = label or f"...", and   *)
(* the call of self.set(self._snapshot(target_value), label=rollback_label)*)
(* A caller waiting for the lock has changed nothing yet, so the call and  *)
(* its with block are one step, taken when the lock can be acquired.       *)
RollbackBody(t, op, index, label) ==
    /\ alive /\ Ready(t, "idle")
    /\ Room
    /\ NoRollbackInFlight
    /\ CanAcquire(t)
    /\ lock' = Released(Acquired(t))
    /\ LET s == [Idle EXCEPT !.op = op, !.index = index, !.label = label]
       IN IF frozen
          THEN th' = [th EXCEPT ![t] = Raise(s, "FrozenError")]
          ELSE IF OutOfRange(index, history)
          THEN th' = [th EXCEPT ![t] = Raise([s EXCEPT !.seenLen = Len(history)],
                                             "RollbackError")]
          ELSE LET target_value == TargetValue(history, index)
               IN th' = [th EXCEPT ![t] =
                            [s EXCEPT !.pc = "set_lock",
                                      !.seenLen = Len(history),
                                      !.value = Snapshot(target_value),
                                      !.rlabel = RollbackLabel(label, index)]]
    /\ UNCHANGED <<alive, history, frozen, validators, listeners, ctor, appended>>
    /\ UNCHANGED ext

Rollback(t, index, label) == RollbackBody(t, "rollback", index, label)

(* reset(): return self.rollback(0, label="reset to initial") *)
Reset(t) == RollbackBody(t, "reset", 0, Some("reset to initial"))

(* The call t makes of freeze or thaw, as it returns. *)
FlagCall(op) == [Idle EXCEPT !.pc = "done", !.op = op, !.outcome = "ok",
                              !.wasFrozen = frozen]

(* A freeze that flips the flag instead of setting it. *)
FreezeToggles(t) ==
    /\ alive /\ Ready(t, "idle")
    /\ CanAcquire(t)
    /\ frozen' = ~frozen
    /\ th' = [th EXCEPT ![t] = FlagCall("freeze")]
    /\ UNCHANGED <<alive, history, validators, listeners, lock, ctor,
                   appended>>
    /\ UNCHANGED ext

(* freeze(): with self._lock: self._frozen = True *)
Freeze(t) ==
    /\ alive /\ Ready(t, "idle")
    /\ CanAcquire(t)
    /\ frozen' = TRUE
    /\ th' = [th EXCEPT ![t] = FlagCall("freeze")]
    /\ UNCHANGED <<alive, history, validators, listeners, lock, ctor,
                   appended>>
    /\ UNCHANGED ext

(* thaw(): with self._lock: self._frozen = False *)
Thaw(t) ==
    /\ alive /\ Ready(t, "idle")
    /\ CanAcquire(t)
    /\ frozen' = FALSE
    /\ th' = [th EXCEPT ![t] = FlagCall("thaw")]
    /\ UNCHANGED <<alive, history, validators, listeners, lock, ctor,
                   appended>>
    /\ UNCHANGED ext

(* add_validator(fn): self._validators.append(fn), without the lock *)
AddValidator(t, fn) ==
    /\ alive /\ Ready(t, "idle")
    /\ NotIn(fn, validators)
    /\ validators' = Append(validators, fn)
    /\ UNCHANGED <<alive, history, frozen, listeners, lock, th, ctor, appended>>
    /\ UNCHANGED ext

(* add_listener(fn): self._listeners.append(fn), without the lock *)
AddListener(t, fn) ==
    /\ alive /\ Ready(t, "idle")
    /\ NotIn(fn, listeners)
    /\ listeners' = Append(listeners, fn)
    /\ UNCHANGED <<alive, history, frozen, validators, lock, th, ctor, appended>>
    /\ UNCHANGED ext

(* The caller has the result (or the exception) and may call again. *)
Return(t) ==
    /\ th[t].pc = "done"
    /\ th' = [th EXCEPT ![t] = Idle]
    /\ UNCHANGED <<alive, history, frozen, validators, listeners, lock, ctor,
                   appended>>
    /\ UNCHANGED ext

Next ==
    \/ \E v \in Values, vs \in CtorValidators, ls \in CtorListeners :
          Construct(v, vs, ls)
    \/ \E t \in Threads, v \in Values, l \in SetLabels : CallSet(t, v, l)
    \/ \E t \in Threads : SetLock(t)
    \/ \E t \in Threads : SetValidate(t)
    \/ \E t \in Threads : SetSnapshot(t)
    \/ \E t \in Threads : SetAppend(t)
    \/ \E t \in Threads : SetNotify(t)
    \/ \E t \in Threads : SetReturn(t)
    \/ \E t \in Threads, i \in Indices, l \in RollbackLabels : Rollback(t, i, l)
    \/ \E t \in Threads : Reset(t)
    \/ \E t \in Threads : Freeze(t)
    \/ \E t \in Threads : Thaw(t)
    \/ \E t \in Threads, fn \in ValidatorFns : AddValidator(t, fn)
    \/ \E t \in Threads, fn \in ListenerFns : AddListener(t, fn)
    \/ \E t \in Threads : Return(t)

Spec == Init /\ [][Next]_vars

----------------------------------------------------------------------------
(* Properties *)

IsPrefix(p, q) == Len(p) <= Len(q) /\ SubSeq(q, 1, Len(p)) = p

Calls == {"set", "rollback", "reset"}

(* C1: in every reachable state the history holds one record more than set *)
(* has appended (set is also what rollback and reset append with), and the *)
(* record at every position i has index i, whatever the interleaving of    *)
(* the threads' calls.                                                     *)
C1_LengthAndIndex ==
    alive =>
        /\ Len(history) = 1 + appended
        /\ \A i \in 1 .. Len(history) : history[i].index = i - 1

(* Both threads have appended their record and neither call has returned:  *)
(* the appends came from interleaved calls, one of them a rollback.        *)
C1_Witness ==
    /\ \A t \in Threads : th[t].pc = "set_notify"
    /\ \E t \in Threads : th[t].op = "rollback"
    /\ Len(history) = 3

(* C2: the history is append-only: in every step of every operation the    *)
(* history before the step is a prefix of the history after it.            *)
C2_AppendOnly == [][IsPrefix(history, history')]_vars

(* A rollback to index 0 has appended the third record of the history: the *)
(* two records before it are still there.                                  *)
C2_Witness ==
    \E t \in Threads :
        /\ th[t].op = "rollback" /\ th[t].index = 0
        /\ th[t].pc = "set_notify"
        /\ TheValue(th[t].record).index = 2
        /\ Len(history) = 3

(* C3: construction stores exactly one record, with index 0, the label     *)
(* "initial" and the initial value, and calls no validator and no listener *)
(* (a validator that rejects the initial value included); in every later   *)
(* state the history is non-empty and its first record is that record.     *)
C3_InitialRecord ==
    IF alive
    THEN /\ Len(history) >= 1
         /\ history[1] = ChangeRecord(0, TheValue(ctor).value, Some("initial"))
         /\ TheValue(ctor).called = <<>>
    ELSE history = <<>> /\ ctor = None

(* The variable was constructed with a validator that rejects its initial  *)
(* value and with a listener, and its history has since grown to the bound.*)
C3_Witness ==
    /\ alive
    /\ TheValue(ctor).rejected
    /\ listeners # <<>>
    /\ Len(history) = MaxHistory

(* Steps of a call, as the action properties name them. *)
Raised(t, error) == th[t].outcome # error /\ th'[t].outcome = error

FrozenChecked(t) ==
    \/ th[t].pc = "set_lock" /\ th'[t].pc # "set_lock"
    \/ th[t].pc = "idle" /\ th'[t].op \in {"rollback", "reset"}

OwnRecordStored(s) ==
    /\ s.record # None
    /\ TheValue(s.record).index < Len(history)
    /\ history[TheValue(s.record).index + 1] = TheValue(s.record)

(* C4: no record is appended while the variable is frozen.  A set or       *)
(* rollback that finds the variable frozen at its check raises FrozenError,*)
(* leaves the history and the frozen flag as they are, creates no record   *)
(* and calls no listener; one that finds it active (after thaw, say) does  *)
(* not raise FrozenError at that check.  A rollback whose own check passed *)
(* and whose set then finds the variable frozen fails in the same way.     *)
C4_Step ==
    /\ (alive /\ Len(history') > Len(history)) => (~frozen /\ ~frozen')
    /\ \A t \in Threads :
          /\ FrozenChecked(t) => (Raised(t, "FrozenError") <=> frozen)
          /\ Raised(t, "FrozenError") =>
                /\ FrozenChecked(t)
                /\ history' = history /\ frozen' = frozen
                /\ th'[t].pc = "done"
                /\ th'[t].record = None /\ th'[t].notified = <<>>

C4_FrozenBlocksMutation == [][C4_Step]_vars

(* A rollback passed its own frozen check and range check, the variable was *)
(* frozen before its set took the lock, and the rollback raised FrozenError.*)
C4_Witness ==
    \E t \in Threads :
        /\ th[t].pc = "done" /\ th[t].op = "rollback"
        /\ th[t].outcome = "FrozenError"
        /\ th[t].seenLen >= 1
        /\ frozen

(* C5: validators run in registration order; the first one that rejects    *)
(* the value ends the loop and its error reaches the caller, with no       *)
(* record created, the history and the current value as they were when the *)
(* call took the lock, and no listener called.  A record is created only   *)
(* when every registered validator has been run and has accepted the value.*)
C5_Step ==
    \A t \in Threads :
        /\ (th[t].pc = "set_validate" /\ th'[t].vrun # th[t].vrun) =>
              LET run == th'[t].vrun
                  fn == run[Len(run)]
              IN /\ run = SubSeq(validators, 1, Len(run))
                 /\ Len(run) = Len(th[t].vrun) + 1
                 /\ Rejects(fn, th[t].value) <=> Raised(t, "ValueError")
        /\ Raised(t, "ValueError") =>
              /\ th[t].pc = "set_validate" /\ th'[t].pc = "done"
              /\ \A i \in 1 .. Len(th[t].vrun) : ~Rejects(th[t].vrun[i], th[t].value)
              /\ history' = history
              /\ Some(CurrentValue') = th[t].prior
              /\ th'[t].record = None /\ th'[t].notified = <<>>
        /\ (th[t].record = None /\ th'[t].record # None) =>
              /\ th[t].vrun = validators
              /\ \A i \in 1 .. Len(validators) : ~Rejects(validators[i], th[t].value)

C5_ValidationFailure == [][C5_Step]_vars

(* The first validator accepted the value, the second one rejected it, and  *)
(* the call has raised ValueError.                                         *)
C5_Witness ==
    \E t \in Threads :
        /\ th[t].pc = "done" /\ th[t].outcome = "ValueError"
        /\ th[t].op = "set"
        /\ Len(th[t].vrun) = 2
        /\ Len(history) >= 2

(* C6: a call that returns has called every registered listener once, in   *)
(* registration order, each with the record this very call appended; a     *)
(* call that fails has called none.                                        *)
C6_ListenersNotified ==
    \A t \in Threads :
        LET s == th[t] IN
        /\ s.notified # <<>> => s.pc \in {"set_notify", "done"}
        /\ s.pc \in {"set_notify", "done"} /\ s.op \in Calls /\ s.record # None =>
              /\ OwnRecordStored(s)
              /\ \A u \in Threads \ {t} : th[u].record # s.record
              /\ Len(s.notified) <= Len(listeners)
              /\ \A i \in 1 .. Len(s.notified) :
                     /\ s.notified[i].fn = listeners[i]
                     /\ s.notified[i].record = TheValue(s.record)
        /\ s.pc = "done" /\ s.op \in Calls =>
              IF s.outcome = "ok"
              THEN s.record # None /\ Len(s.notified) = Len(listeners)
              ELSE s.record = None /\ s.notified = <<>>

(* A rollback has returned after calling two listeners with its record,    *)
(* and a record of another call is already behind it in the history.       *)
C6_Witness ==
    \E t \in Threads :
        /\ th[t].pc = "done" /\ th[t].op = "rollback" /\ th[t].outcome = "ok"
        /\ Len(th[t].notified) = 2
        /\ TheValue(th[t].record).index < Len(history) - 1

(* C7: a listener that raises does not make the call fail: the listeners   *)
(* after it are still called with the same record, the record stays in the *)
(* history and the call returns.                                           *)
C7_ListenerFailureDiscarded ==
    \A t \in Threads :
        LET s == th[t] IN
        /\ s.outcome \in {"", "ok", "FrozenError", "ValueError", "RollbackError"}
        /\ (s.pc = "done" /\ \E i \in 1 .. Len(s.notified) : s.notified[i].raised) =>
              /\ s.outcome = "ok"
              /\ Len(s.notified) = Len(listeners)
              /\ \A i \in 1 .. Len(s.notified) :
                     s.notified[i].record = TheValue(s.record)
              /\ OwnRecordStored(s)

(* The first listener raised, the second one was called all the same, and  *)
(* the call returned.                                                      *)
C7_Witness ==
    \E t \in Threads :
        /\ th[t].pc = "done" /\ th[t].outcome = "ok"
        /\ Len(th[t].notified) = 2
        /\ th[t].notified[1].raised /\ ~th[t].notified[2].raised

(* C8: the record a rollback(i) creates carries the value of history[i],   *)
(* also when other threads append between rollback's read and its append;  *)
(* once appended it is in the history at its index, after the records that *)
(* were there at the read, and while it is the newest record get() returns *)
(* the value stored at index i.                                            *)
C8_RollbackRoundTrip ==
    \A t \in Threads :
        LET s == th[t] IN
        (s.op \in {"rollback", "reset"} /\ s.record # None) =>
            LET r == TheValue(s.record) IN
            /\ 0 <= s.index /\ s.index < s.seenLen
            /\ r.value = history[s.index + 1].value
            /\ r.index >= s.seenLen
            /\ s.pc \in {"set_notify", "done"} =>
                  /\ OwnRecordStored(s)
                  /\ r.index = Len(history) - 1 =>
                        CurrentValue = history[s.index + 1].value

(* A rollback to index 0 has returned; another thread's record got in      *)
(* between its read and its append, and the record before its own holds a  *)
(* different value.                                                        *)
C8_Witness ==
    \E t \in Threads :
        /\ th[t].pc = "done" /\ th[t].op = "rollback" /\ th[t].outcome = "ok"
        /\ th[t].index = 0
        /\ TheValue(th[t].record).index > th[t].seenLen
        /\ TheValue(th[t].record).index = Len(history) - 1
        /\ history[Len(history) - 1].value # CurrentValue

(* C9, as the code has it: a rollback that finds the variable active        *)
(* raises RollbackError exactly when index < 0 or index >= the history     *)
(* length at its check, and then has created no record, called no listener *)
(* and left the history as it was.  rollback(length - 1) passes the range  *)
(* check; it returns unless its set fails (a validator rejects the stored  *)
(* value, or the variable was frozen in between), and when it returns it   *)
(* has appended one record that carries the value that was current.        *)
C9_RangeCheck ==
    \A t \in Threads :
        LET s == th[t] IN
        (s.pc = "done" /\ s.op \in {"rollback", "reset"}) =>
            /\ s.outcome = "RollbackError" <=>
                  (s.seenLen >= 0 /\ (s.index < 0 \/ s.index >= s.seenLen))
            /\ s.outcome = "RollbackError" =>
                  /\ s.record = None /\ s.notified = <<>>
                  /\ Len(history) = s.seenLen
            /\ (s.seenLen >= 1 /\ s.index = s.seenLen - 1) =>
                  /\ s.outcome \in {"ok", "ValueError", "FrozenError"}
                  /\ s.outcome = "ok" =>
                        /\ OwnRecordStored(s)
                        /\ TheValue(s.record).value = history[s.seenLen].value
                  /\ s.outcome = "ValueError" =>
                        Rejects(s.vrun[Len(s.vrun)], history[s.seenLen].value)
                  /\ s.outcome = "FrozenError" => frozen

(* rollback(length) was refused on a history of more than one record. *)
C9_Witness ==
    \E t \in Threads :
        /\ th[t].pc = "done" /\ th[t].op = "rollback"
        /\ th[t].outcome = "RollbackError"
        /\ th[t].index = th[t].seenLen /\ th[t].seenLen >= 2

(* C9 as claimed: RollbackError exactly for an index out of range, and      *)
(* rollback(length - 1) on an active variable succeeds and appends one     *)
(* record that leaves the current value unchanged.  The variable is taken  *)
(* to be active from the call to its end.                                  *)
C9_AsClaimed ==
    \A t \in Threads :
        LET s == th[t] IN
        (s.pc = "done" /\ s.op = "rollback") =>
            /\ s.outcome = "RollbackError" <=>
                  (s.seenLen >= 0 /\ (s.index < 0 \/ s.index >= s.seenLen))
            /\ (s.seenLen >= 1 /\ s.index = s.seenLen - 1 /\ ~frozen) =>
                  /\ s.outcome = "ok"
                  /\ OwnRecordStored(s)
                  /\ TheValue(s.record).value = history[s.seenLen].value

(* C10: the record of a rollback(index, label) that returned has the label *)
(* the caller supplied, whatever string that is, the empty string          *)
(* included, and "rollback to index {index}" only when none was supplied;  *)
(* the record of reset() has the label "reset to initial" and the value of *)
(* history[0].                                                             *)
C10_LabelAsSupplied ==
    \A t \in Threads :
        LET s == th[t] IN
        (s.pc = "done" /\ s.outcome = "ok") =>
            /\ s.op = "rollback" =>
                  TheValue(s.record).label =
                      IF s.label # None THEN s.label
                      ELSE Some(DefaultRollbackLabel(s.index))
            /\ s.op = "reset" =>
                  /\ TheValue(s.record).label = Some("reset to initial")
                  /\ TheValue(s.record).value = history[1].value

(* C11: a rollback stores its target through set.  The value set is called *)
(* with is that of history[index]; the validators registered at that time  *)
(* are run against it in order; one that rejects it (a validator added     *)
(* after the value was stored, say) ends the rollback with its error and   *)
(* no record; the record is created only when every registered validator   *)
(* has accepted the value, and a rollback that returns has called every    *)
(* listener with its record, as a set does.                                *)
RolledBack(s) == s.op \in {"rollback", "reset"} /\ s.pc # "idle"

C11_State ==
    \A t \in Threads :
        LET s == th[t] IN
        (RolledBack(s) /\ s.outcome \notin {"FrozenError", "RollbackError"}) =>
            /\ s.value = history[s.index + 1].value
            /\ s.vrun = SubSeq(validators, 1, Len(s.vrun))
            /\ s.outcome = "ValueError" =>
                  /\ Rejects(s.vrun[Len(s.vrun)], history[s.index + 1].value)
                  /\ s.record = None /\ s.notified = <<>>
            /\ s.outcome = "ok" =>
                  /\ OwnRecordStored(s)
                  /\ Len(s.notified) = Len(listeners)
                  /\ \A i \in 1 .. Len(s.notified) :
                        s.notified[i].record = TheValue(s.record)

C11_Step ==
    \A t \in Threads :
        (RolledBack(th'[t]) /\ th[t].record = None /\ th'[t].record # None) =>
            /\ th[t].vrun = validators
            /\ \A i \in 1 .. Len(validators) :
                  ~Rejects(validators[i], history[th[t].index + 1].value)

C11_RollbackValidates == []C11_State /\ [][C11_Step]_vars

(* A rollback to a value that a set had stored was refused by a validator: *)
(* the validator was registered after the value was stored.                *)
C11_Witness ==
    \E t \in Threads :
        /\ th[t].pc = "done" /\ th[t].op = "rollback"
        /\ th[t].outcome = "ValueError"
        /\ th[t].index = 1
        /\ history[2].label = None

FlagCalls == {"freeze", "thaw"}

(* C14, the calls of freeze and thaw: when freeze has returned the flag is *)
(* set, and when thaw has returned it is clear, whatever it was before     *)
(* (so a second freeze, or a second thaw, leaves what the first left).     *)
C14_State ==
    \A t \in Threads :
        LET s == th[t] IN
        (s.pc = "done" /\ s.op \in FlagCalls) => (frozen <=> s.op = "freeze")

(* C14, every step: a step that changes the frozen flag is the step of a   *)
(* freeze or of a thaw, so no step of set, rollback, reset, add_validator  *)
(* or add_listener changes it, whether the call succeeds or raises; and a  *)
(* step of freeze or thaw leaves the history, the validators and the       *)
(* listeners as they were.                                                 *)
C14_Step ==
    LET flagStep == \E t \in Threads :
                        /\ th[t].pc = "idle" /\ th'[t].pc = "done"
                        /\ th'[t].op \in FlagCalls
    IN  /\ frozen' # frozen => flagStep
        /\ flagStep => /\ history' = history
                       /\ validators' = validators
                       /\ listeners' = listeners

C14_FreezeThaw == []C14_State /\ [][C14_Step]_vars

(* A second freeze has returned on a variable that was already frozen,     *)
(* after a set had appended a record.                                      *)
C14_Witness ==
    \E t \in Threads :
        /\ th[t].pc = "done" /\ th[t].op = "freeze" /\ th[t].wasFrozen
        /\ frozen /\ Len(history) = 2

(* C20, every state: a thread that is in the listener loop of set (called  *)
(* directly, or by rollback or reset) does not hold the lock of the        *)
(* variable, and the record it hands to the listeners is in the history.   *)
C20_State ==
    \A t \in Threads :
        th[t].pc = "set_notify" =>
            /\ th[t].op \in Calls
            /\ lock.owner # t
            /\ OwnRecordStored(th[t])

(* C20, every step: a listener is called by a thread that does not hold    *)
(* the lock, in a state in which the lock is free or held by another       *)
(* thread; a get() by the listener then needs only the lock to be free.    *)
C20_Step ==
    \A t \in Threads :
        Len(th'[t].notified) > Len(th[t].notified) =>
            /\ th[t].pc = "set_notify"
            /\ lock.owner # t /\ lock'.owner # t

C20_ListenersOutsideLock == []C20_State /\ [][C20_Step]_vars

(* A rollback has appended its record and has called no listener yet; the  *)
(* lock is free, so that a reader on the other thread finds the new value  *)
(* before the listener runs.                                               *)
C20_Witness ==
    \E t \in Threads :
        /\ th[t].pc = "set_notify" /\ th[t].op = "rollback"
        /\ th[t].notified = <<>> /\ Len(listeners) > 0
        /\ lock = Unlocked
        /\ PyIndex(history, -1) = TheValue(th[t].record)
        /\ CurrentValue = th[t].value
        /\ CurrentValue # history[Len(history) - 1].value

(***************************************************************************)
(* Copy on store.  The values of this model are mutable objects: an object *)
(* is a position of the heap, its content an integer, and copy.deepcopy    *)
(* either builds a new object of the same content or raises (a dict that   *)
(* holds a threading.Lock cannot be copied).  One caller constructs the    *)
(* variable, stores objects, rolls back, reads the current object and      *)
(* mutates the objects it holds.                                           *)
(***************************************************************************)
MaxCopyHistory == 3

Contents == {0, 99}

(* Every store allocates at most the object stored and its copy. *)
Refs == 1 .. 2 * MaxCopyHistory

NewObject(content, copyable) == [content |-> content, copyable |-> copyable]

(* copy.deepcopy(heap[ref]): the heap after the call and the object it *)
(* returned, ref itself where deepcopy raised.                          *)
SnapshotByReference(deep_copy, heap, ref) == [heap |-> heap, ref |-> ref]

CopySnapshot(deep_copy, heap, ref) ==
    IF deep_copy /\ heap[ref].copyable
    THEN [heap |-> Append(heap, heap[ref]), ref |-> Len(heap) + 1]
    ELSE [heap |-> heap, ref |-> ref]

(* The content a reader finds in each history entry, and in get(). *)
HistoryContents(c) == [i \in 1 .. Len(c.history) |-> c.heap[c.history[i].value].content]

GetRef(c) == c.history[Len(c.history)].value

GetContent(c) == c.heap[GetRef(c)].content

CopyMain ==
    UNCHANGED <<mainVars, regVars, counterVars, clockVars, lockVars, listVars>>

(* data = {...}; var = AlmaVar("d", data, deep_copy=deep_copy) *)
CopyConstruct(deep_copy, content, copyable) ==
    /\ ~alive /\ ~cp.on
    /\ LET heap == <<NewObject(content, copyable)>>
           snap == CopySnapshot(deep_copy, heap, 1)
       IN  cp' = [on        |-> TRUE,
                  deep_copy |-> deep_copy,
                  heap      |-> snap.heap,
                  history   |-> <<CopyRecord(0, snap.ref)>>,
                  stored    |-> <<content>>,
                  passed    |-> {1},
                  returned  |-> {},
                  last      |-> [op |-> "construct", ref |-> 1]]
    /\ CopyMain

(* data = {...}; var.set(data) *)
CopySet(content, copyable) ==
    /\ cp.on /\ Len(cp.history) < MaxCopyHistory
    /\ LET heap == Append(cp.heap, NewObject(content, copyable))
           ref  == Len(heap)
           snap == CopySnapshot(cp.deep_copy, heap, ref)
       IN  cp' = [cp EXCEPT
                    !.heap    = snap.heap,
                    !.history = Append(@, CopyRecord(Len(@), snap.ref)),
                    !.stored  = Append(@, content),
                    !.passed  = @ \cup {ref},
                    !.last    = [op |-> "set", ref |-> ref]]
    /\ CopyMain

(* var.rollback(index): the target is copied, and set copies the copy. *)
CopyRollback(index) ==
    /\ cp.on /\ Len(cp.history) < MaxCopyHistory
    /\ index \in 0 .. Len(cp.history) - 1
    /\ LET target == cp.history[index + 1].value
           arg    == CopySnapshot(cp.deep_copy, cp.heap, target)
           snap   == CopySnapshot(cp.deep_copy, arg.heap, arg.ref)
       IN  cp' = [cp EXCEPT
                    !.heap    = snap.heap,
                    !.history = Append(@, CopyRecord(Len(@), snap.ref)),
                    !.stored  = Append(@, cp.heap[target].content),
                    !.last    = [op |-> "rollback", ref |-> target]]
    /\ CopyMain

(* got = var.get() *)
CopyGet ==
    /\ cp.on
    /\ cp' = [cp EXCEPT !.returned = @ \cup {GetRef(cp)},
                        !.last     = [op |-> "get", ref |-> GetRef(cp)]]
    /\ CopyMain

(* data["count"] = content, on an object the caller passed in *)
MutateOriginal(ref, content) ==
    /\ cp.on /\ ref \in cp.passed
    /\ cp.heap[ref].content # content
    /\ cp' = [cp EXCEPT !.heap[ref].content = content,
                        !.last = [op |-> "mutate_original", ref |-> ref]]
    /\ CopyMain

(* got["count"] = content, on an object get() returned *)
MutateReturned(ref, content) ==
    /\ cp.on /\ ref \in cp.returned
    /\ cp.heap[ref].content # content
    /\ cp' = [cp EXCEPT !.heap[ref].content = content,
                        !.last = [op |-> "mutate_returned", ref |-> ref]]
    /\ CopyMain

CopyNext ==
    \/ \E deep_copy \in BOOLEAN, content \in Contents, copyable \in BOOLEAN :
          CopyConstruct(deep_copy, content, copyable)
    \/ \E content \in Contents, copyable \in BOOLEAN : CopySet(content, copyable)
    \/ \E index \in 0 .. MaxCopyHistory - 1 : CopyRollback(index)
    \/ CopyGet
    \/ \E ref \in Refs, content \in Contents :
          MutateOriginal(ref, content)
    \/ \E ref \in Refs, content \in Contents :
          MutateReturned(ref, content)

CopySpec == Init /\ [][CopyNext]_vars

MutatedOriginal(c) == c.on /\ c.last.op = "mutate_original"

(* C12 as amended: with copy-on-store enabled, mutating an original that   *)
(* copy.deepcopy was able to copy changes neither what get() returns nor   *)
(* what any history entry holds; with copy-on-store disabled, mutating the *)
(* original that was stored last is observable through get().              *)
C12_Step ==
    MutatedOriginal(cp') =>
        LET ref == cp'.last.ref IN
        /\ (cp.deep_copy /\ cp.heap[ref].copyable) =>
              /\ HistoryContents(cp') = HistoryContents(cp)
              /\ GetContent(cp') = GetContent(cp)
        /\ (~cp.deep_copy /\ ref = GetRef(cp)) =>
              GetContent(cp') = cp'.heap[ref].content

C13_ReturnedIsolated ==
    [][(cp'.on /\ cp'.last.op = "mutate_returned" /\ cp.deep_copy
            /\ cp.heap[cp'.last.ref].copyable) =>
          /\ HistoryContents(cp') = HistoryContents(cp)
          /\ GetContent(cp') = GetContent(cp)]_vars

(***************************************************************************)
(* AlmaRegistry.  Two threads call watch, get_var and unregister on one    *)
(* registry; a caller that holds a variable the registry returned calls    *)
(* set on it.  entries[name] is the position in  instances  of the         *)
(* variable registered under name, 0 when the name is not registered.      *)
(***************************************************************************)
MaxInstances == 2

RegValues == {0, 1}

(* The value a caller sets on a variable it holds. *)
SetValues == {7}

(* AlmaVar(name, initial_value): the initial record; detached counts the *)
(* sets made while the variable was not registered.                      *)
NewVar(name, initial_value) ==
    [name |-> name, history |-> <<CopyRecord(0, initial_value)>>,
     detached |-> 0]

(* threading.Lock is not reentrant: it is acquired only while free. *)
RegCanAcquireUnguarded(t) == TRUE

RegCanAcquire(t) == rlock = ""

Registered(name) == entries[name] # 0

(* self._vars[name] = var *)
StoredElsewhere(name, var) ==
    [entries EXCEPT ![CHOOSE n \in Names : n # name] = var]

Stored(name, var) == [entries EXCEPT ![name] = var]

(* del self._vars[name] *)
RemovedAll(name) == [n \in Names |-> 0]

Removed(name) == [entries EXCEPT ![name] = 0]

(* reg.get_var(name).get(), for a registered name *)
RegGet(es, is, name) ==
    LET h == is[es[name]].history IN h[Len(h)].value

RegFrame ==
    UNCHANGED <<mainVars, copyVars, counterVars, clockVars, lockVars, listVars>>

(* A get_var or an unregister that has finished is returned to its caller *)
(* before any other step.                                                 *)
Settled == \A u \in Threads : rt[u].pc = "done" => rt[u].op = "watch"

RegReady(t, pc) == rt[t].pc = pc /\ Settled

(* reg.watch(name, initial_value, overwrite=overwrite): the call is made. *)
CallWatch(t, name, initial_value, overwrite) ==
    /\ RegReady(t, "idle")
    /\ Len(instances) < MaxInstances
    /\ rt' = [rt EXCEPT ![t] =
                 [RegIdle EXCEPT !.pc = "watch_lock", !.op = "watch",
                                 !.name = name, !.value = initial_value,
                                 !.overwrite = overwrite,
                                 !.absentAtCall = ~Registered(name),
                                 !.undisturbed = ~Registered(name)]]
    /\ UNCHANGED <<entries, instances, rlock>>
    /\ RegFrame

(* with self._lock: the duplicate check, then the variable is constructed *)
WatchLock(t) ==
    /\ RegReady(t, "watch_lock")
    /\ RegCanAcquire(t)
    /\ LET s == rt[t] IN
       IF Registered(s.name) /\ ~s.overwrite
       THEN /\ rt' = [rt EXCEPT ![t] = [s EXCEPT !.pc = "done", !.value = 0,
                                                 !.outcome = "AlmaError"]]
            /\ UNCHANGED <<entries, instances, rlock>>
       ELSE /\ instances' = Append(instances, NewVar(s.name, s.value))
            /\ rt' = [rt EXCEPT ![t] = [s EXCEPT !.pc = "watch_store",
                                                 !.var = Len(instances) + 1]]
            /\ rlock' = t
            /\ UNCHANGED entries
    /\ RegFrame

(* self._vars[name] = var; the lock is released; return var *)
WatchStore(t) ==
    /\ RegReady(t, "watch_store")
    /\ entries' = Stored(rt[t].name, rt[t].var)
    /\ rlock' = ""
    /\ rt' = [rt EXCEPT ![t] = [@ EXCEPT !.pc = "done", !.value = 0,
                                         !.outcome = "ok"]]
    /\ UNCHANGED instances
    /\ RegFrame

(* reg.get_var(name) *)
GetVar(t, name) ==
    /\ RegReady(t, "idle")
    /\ RegCanAcquire(t)
    /\ rt' = [rt EXCEPT ![t] =
                 IF Registered(name)
                 THEN [RegIdle EXCEPT !.pc = "done", !.op = "get_var",
                                      !.name = name, !.outcome = "ok",
                                      !.var = entries[name]]
                 ELSE [RegIdle EXCEPT !.pc = "done", !.op = "get_var",
                                      !.name = name, !.outcome = "AlmaError",
                                      !.absentAtCall = TRUE]]
    /\ UNCHANGED <<entries, instances, rlock>>
    /\ RegFrame

(* reg.unregister(name) *)
Unregister(t, name) ==
    /\ RegReady(t, "idle")
    /\ RegCanAcquire(t)
    /\ IF Registered(name)
       THEN /\ entries' = Removed(name)
            /\ rt' = [u \in Threads |->
                        IF u = t
                        THEN [RegIdle EXCEPT !.pc = "done", !.op = "unregister",
                                             !.name = name, !.outcome = "ok",
                                             !.var = entries[name]]
                        ELSE IF rt[u].op = "watch" /\ rt[u].name = name
                        THEN [rt[u] EXCEPT !.undisturbed = FALSE]
                        ELSE rt[u]]
       ELSE /\ rt' = [rt EXCEPT ![t] =
                        [RegIdle EXCEPT !.pc = "done", !.op = "unregister",
                                        !.name = name, !.outcome = "AlmaError",
                                        !.absentAtCall = TRUE]]
            /\ UNCHANGED entries
    /\ UNCHANGED <<instances, rlock>>
    /\ RegFrame

(* The caller has the variable (or the exception) and may call again. *)
RegReturn(t) ==
    /\ rt[t].pc = "done"
    /\ rt' = [rt EXCEPT ![t] = RegIdle]
    /\ UNCHANGED <<entries, instances, rlock>>
    /\ RegFrame

IsRegistered(var) == \E n \in Names : entries[n] = var

(* A caller holds the variable: watch has stored and released it. *)
Held(var) ==
    /\ var \in 1 .. Len(instances)
    /\ \A t \in Threads : ~(rt[t].pc = "watch_store" /\ rt[t].var = var)

(* var.set(value) on a variable a caller holds, with no validator and no *)
(* listener registered and the variable not frozen; a caller sets a      *)
(* variable once.                                                        *)
VarSet(var, value) ==
    /\ Settled
    /\ Held(var)
    /\ Len(instances[var].history) = 1
    /\ instances' = [instances EXCEPT
                       ![var].history = Append(@, CopyRecord(Len(@), value)),
                       ![var].detached = IF IsRegistered(var) THEN @ ELSE @ + 1]
    /\ UNCHANGED <<entries, rlock, rt>>
    /\ RegFrame

RegNext ==
    \/ \E t \in Threads, n \in Names, v \in RegValues, o \in BOOLEAN :
          CallWatch(t, n, v, o)
    \/ \E t \in Threads : WatchLock(t)
    \/ \E t \in Threads : WatchStore(t)
    \/ \E t \in Threads, n \in Names : GetVar(t, n)
    \/ \E t \in Threads, n \in Names : Unregister(t, n)
    \/ \E t \in Threads : RegReturn(t)
    \/ \E var \in 1 .. MaxInstances, v \in SetValues : VarSet(var, v)

RegSpec == Init /\ [][RegNext]_vars

WatchChecks(t) == rt[t].pc = "watch_lock" /\ rt'[t].pc # "watch_lock"

WatchStores(t) == rt[t].pc = "watch_store" /\ rt'[t].pc = "done"

(* C15, every step (the error watch raises is the code's AlmaError): a     *)
(* watch that finds its name registered and has overwrite false fails and  *)
(* leaves the mapping and every variable as they were; any other watch     *)
(* goes on to store, and when it has stored, the name maps to a variable   *)
(* constructed by this call, whose history is the one initial record with  *)
(* the value given, so that get_var(name).get() is that value; the         *)
(* variable registered before is left as it was.                           *)
C15_Step ==
    \A t \in Threads :
        LET s == rt[t] IN
        /\ WatchChecks(t) =>
              IF Registered(s.name) /\ ~s.overwrite
              THEN /\ rt'[t].pc = "done" /\ rt'[t].outcome = "AlmaError"
                   /\ entries' = entries /\ instances' = instances
              ELSE rt'[t].pc = "watch_store"
        /\ WatchStores(t) =>
              /\ rt'[t].outcome = "ok"
              /\ entries' = [entries EXCEPT ![s.name] = s.var]
              /\ \A n \in Names : entries[n] # s.var
              /\ instances' = instances
              /\ instances'[s.var].name = s.name
              /\ instances'[s.var].history = <<CopyRecord(0, s.value)>>
              /\ RegGet(entries', instances', s.name) = s.value

RacedFor(s, name) ==
    /\ s.pc = "done" /\ s.op = "watch" /\ s.name = name
    /\ ~s.overwrite /\ s.absentAtCall /\ s.undisturbed

(* C15, concurrent calls: when two threads have called watch without       *)
(* overwrite for the same name, both while it was not registered, and no   *)
(* unregister has removed the name since, exactly one of the two calls has *)
(* succeeded once both have finished.                                      *)
C15_State ==
    \A t, u \in Threads, n \in Names :
        (t # u /\ RacedFor(rt[t], n) /\ RacedFor(rt[u], n)) =>
            (rt[t].outcome = "ok") # (rt[u].outcome = "ok")

C15_Watch == []C15_State /\ [][C15_Step]_vars

(* Two calls of watch raced for a name that was not registered: both have  *)
(* finished, and the registered variable is the one the winner made.       *)
C15_Witness ==
    \E t, u \in Threads :
        /\ t # u /\ RacedFor(rt[t], "x") /\ RacedFor(rt[u], "x")
        /\ rt[t].outcome = "ok" /\ rt[u].outcome = "AlmaError"
        /\ entries["x"] = rt[t].var
        /\ Len(instances) = 1

RegCallOf(t, op) == rt[t].pc = "idle" /\ rt'[t].pc = "done" /\ rt'[t].op = op

(* C16, every step (the error is the code's AlmaError): get_var and        *)
(* unregister of a name that is not registered fail and leave the mapping  *)
(* and the variables as they were; get_var of a registered name returns    *)
(* the variable registered; unregister of a registered name removes that   *)
(* name's mapping only and leaves every variable, its history included, as *)
(* it was; a watch without overwrite of a name that is not registered goes *)
(* on to store; and set on a variable a caller holds appends its record,   *)
(* registered or not.                                                      *)
C16_Step ==
    /\ \A t \in Threads, n \in Names :
          /\ (RegCallOf(t, "get_var") /\ rt'[t].name = n) =>
                /\ entries' = entries /\ instances' = instances
                /\ IF Registered(n)
                   THEN rt'[t].outcome = "ok" /\ rt'[t].var = entries[n]
                   ELSE rt'[t].outcome = "AlmaError"
          /\ (RegCallOf(t, "unregister") /\ rt'[t].name = n) =>
                /\ instances' = instances
                /\ IF Registered(n)
                   THEN /\ rt'[t].outcome = "ok"
                        /\ entries' = [entries EXCEPT ![n] = 0]
                   ELSE /\ rt'[t].outcome = "AlmaError"
                        /\ entries' = entries
          /\ (WatchChecks(t) /\ rt[t].name = n /\ ~Registered(n)) =>
                rt'[t].pc = "watch_store"
    /\ \A var \in 1 .. Len(instances), v \in SetValues :
          VarSet(var, v) =>
              /\ instances'[var].history =
                    Append(instances[var].history,
                           CopyRecord(Len(instances[var].history), v))
              /\ entries' = entries

C16_GetVarUnregister == [][C16_Step]_vars

(* A variable was registered under "x", returned to a caller and then      *)
(* unregistered; the caller has since called set on it, and get_var("x")   *)
(* has failed.                                                             *)
C16_Witness ==
    /\ ~Registered("x")
    /\ \E var \in 1 .. Len(instances) :
          /\ instances[var].name = "x" /\ instances[var].detached = 1
          /\ Len(instances[var].history) = 2
    /\ \E t \in Threads :
          /\ rt[t].pc = "done" /\ rt[t].op = "get_var" /\ rt[t].name = "x"
          /\ rt[t].outcome = "AlmaError"

(* C17: in every reachable state of the registry, every registered name    *)
(* maps to one constructed variable, and that variable's name is the name  *)
(* it is registered under.                                                 *)
C17_NameIsKey ==
    \A n \in Names :
        Registered(n) =>
            /\ entries[n] \in 1 .. Len(instances)
            /\ instances[entries[n]].name = n

(* "x" is registered to the second variable constructed under that name,   *)
(* after an unregister of the first.                                       *)
C17_Witness ==
    /\ entries["x"] = 2 /\ ~Registered("y")
    /\ instances[1].name = "x"
    /\ \E t \in Threads :
          /\ rt[t].pc = "done" /\ rt[t].op = "watch"
          /\ ~rt[t].overwrite /\ rt[t].var = 2

(***************************************************************************)
(* test_concurrent_sets_are_safe.  Every worker increments the counter     *)
(* Increments times, each get and set under the workers' own lock, and     *)
(* then reads the counter under that lock.  get and set are each one step: *)
(* each holds the variable's lock from its first statement to its last.    *)
(***************************************************************************)
XCanAcquireUnguarded(w) == TRUE

XCanAcquire(w) == xlock = 0

CounterValue == counter[Len(counter)].value

CounterFrame ==
    UNCHANGED <<mainVars, copyVars, regVars, clockVars, lockVars, listVars>>

(* with lock: entered for the next increment, or for the final read *)
WorkerAcquire(w) ==
    /\ wk[w].pc = "acquire"
    /\ XCanAcquire(w)
    /\ xlock' = w
    /\ wk' = [wk EXCEPT ![w].pc = IF wk[w].done < Increments THEN "get"
                                                              ELSE "report"]
    /\ UNCHANGED counter
    /\ CounterFrame

(* current = var.get() *)
WorkerGet(w) ==
    /\ wk[w].pc = "get"
    /\ wk' = [wk EXCEPT ![w].pc = "set", ![w].current = CounterValue]
    /\ UNCHANGED <<counter, xlock>>
    /\ CounterFrame

(* var.set(current + 1) *)
WorkerSet(w) ==
    /\ wk[w].pc = "set"
    /\ counter' = Append(counter, CopyRecord(Len(counter), wk[w].current + 1))
    /\ wk' = [wk EXCEPT ![w].pc = "release"]
    /\ UNCHANGED xlock
    /\ CounterFrame

(* the with block is left: the lock is released, the loop goes on *)
WorkerRelease(w) ==
    /\ wk[w].pc = "release"
    /\ xlock' = 0
    /\ wk' = [wk EXCEPT ![w].pc = "acquire", ![w].done = @ + 1]
    /\ UNCHANGED counter
    /\ CounterFrame

(* with lock: results.append(var.get()) *)
WorkerReport(w) ==
    /\ wk[w].pc = "report"
    /\ xlock' = 0
    /\ wk' = [wk EXCEPT ![w].pc = "finished", ![w].current = CounterValue]
    /\ UNCHANGED counter
    /\ CounterFrame

CounterNext ==
    \/ \E w \in Workers : WorkerAcquire(w)
    \/ \E w \in Workers : WorkerGet(w)
    \/ \E w \in Workers : WorkerSet(w)
    \/ \E w \in Workers : WorkerRelease(w)
    \/ \E w \in Workers : WorkerReport(w)

CounterSpec == Init /\ [][CounterNext]_vars

Joined == \A w \in Workers : wk[w].pc = "finished"

(* C18: the history holds one record more than the sets made so far, the   *)
(* record at index i has value i, and when every worker has finished the   *)
(* counter reads NumWorkers * Increments and the history holds             *)
(* 1 + NumWorkers * Increments records.                                    *)
C18_SerializedIncrements ==
    /\ \A i \in 1 .. Len(counter) :
          counter[i].index = i - 1 /\ counter[i].value = i - 1
    /\ Joined => /\ CounterValue = NumWorkers * Increments
                 /\ Len(counter) = 1 + NumWorkers * Increments

(* Every worker has finished, and the last worker to read the counter read *)
(* the final value.                                                        *)
C18_Witness ==
    /\ Joined
    /\ CounterValue = NumWorkers * Increments
    /\ \E w \in Workers : wk[w].current = NumWorkers * Increments
    /\ \E w \in Workers : wk[w].current < NumWorkers * Increments

(***************************************************************************)
(* Timestamps.  Two threads call set and rollback on one variable while    *)
(* the clock advances; a reading of the clock is a number of milliseconds. *)
(* set reads the clock when it creates its record, holding the lock.       *)
(***************************************************************************)
MaxClock == 2
MaxStamped == 4

StampValues == {0, 1}

SCanAcquireUnguarded(t) == TRUE

SCanAcquire(t) == slock = "" \/ slock = t

(* datetime.now(tz=timezone.utc) *)
ReadClock == now

ClockFrame ==
    UNCHANGED <<mainVars, copyVars, regVars, counterVars, lockVars, listVars>>

StampRoom ==
    Len(stamped) + Cardinality({t \in Threads : ts[t].pc # "idle"}) < MaxStamped

(* The clock advances; its readings never decrease. *)
Tick ==
    /\ now < MaxClock
    /\ now' = now + 1
    /\ UNCHANGED <<stamped, slock, ts>>
    /\ ClockFrame

(* set(value): the call is made *)
StampCall(t, value) ==
    /\ ts[t].pc = "idle"
    /\ StampRoom
    /\ ts' = [ts EXCEPT ![t] = [StampIdle EXCEPT !.pc = "lock", !.value = value]]
    /\ UNCHANGED <<now, stamped, slock>>
    /\ ClockFrame

(* rollback(index): the target is read under the lock, the lock released, *)
(* and set called with the target value                                   *)
StampRollback(t, index) ==
    /\ ts[t].pc = "idle"
    /\ StampRoom
    /\ SCanAcquire(t)
    /\ index \in 0 .. Len(stamped) - 1
    /\ ts' = [ts EXCEPT ![t] = [StampIdle EXCEPT !.pc = "lock",
                                                 !.value = stamped[index + 1].value]]
    /\ UNCHANGED <<now, stamped, slock>>
    /\ ClockFrame

(* set: with self._lock: *)
StampLock(t) ==
    /\ ts[t].pc = "lock"
    /\ SCanAcquire(t)
    /\ slock' = t
    /\ ts' = [ts EXCEPT ![t].pc = "record"]
    /\ UNCHANGED <<now, stamped>>
    /\ ClockFrame

(* set: record = ChangeRecord(..., timestamp=datetime.now(tz=timezone.utc)) *)
StampRecord(t) ==
    /\ ts[t].pc = "record"
    /\ ts' = [ts EXCEPT ![t].pc = "append", ![t].timestamp = ReadClock]
    /\ UNCHANGED <<now, stamped, slock>>
    /\ ClockFrame

(* set: self._history.append(record); the lock is released; return self *)
StampAppend(t) ==
    /\ ts[t].pc = "append"
    /\ stamped' = Append(stamped, StampedRecord(Len(stamped), ts[t].value,
                                                ts[t].timestamp))
    /\ slock' = ""
    /\ ts' = [ts EXCEPT ![t] = StampIdle]
    /\ UNCHANGED now
    /\ ClockFrame

(* diff() *)
Diff(records) ==
    [i \in 1 .. Len(records) - 1 |->
        LET prev == records[i]
            curr == records[i + 1]
        IN [from_index |-> prev.index, to_index |-> curr.index,
            from_value |-> prev.value, to_value |-> curr.value,
            elapsed_ms |-> curr.timestamp - prev.timestamp]]

ClockNext ==
    \/ Tick
    \/ \E t \in Threads, v \in StampValues : StampCall(t, v)
    \/ \E t \in Threads, i \in 0 .. MaxStamped - 1 : StampRollback(t, i)
    \/ \E t \in Threads : StampLock(t)
    \/ \E t \in Threads : StampRecord(t)
    \/ \E t \in Threads : StampAppend(t)

ClockSpec == Init /\ [][ClockNext]_vars

(* C19: with a clock whose readings never decrease, the timestamps of the  *)
(* history never decrease from one index to the next, under every          *)
(* interleaving of the set and rollback calls of the threads; diff() has   *)
(* one entry fewer than the history has records, each entry goes from an   *)
(* index to the next, and its elapsed time is not negative.                *)
C19_TimestampsOrdered ==
    /\ \A i \in 1 .. Len(stamped) - 1 :
          stamped[i].timestamp <= stamped[i + 1].timestamp
    /\ Len(Diff(stamped)) = Len(stamped) - 1
    /\ \A i \in 1 .. Len(Diff(stamped)) :
          LET d == Diff(stamped)[i] IN
          /\ d.from_index = i - 1
          /\ d.to_index = d.from_index + 1
          /\ d.elapsed_ms >= 0

(* A record was appended at reading 1; another thread has created its      *)
(* record at reading 1 as well and not yet appended it, the first thread   *)
(* waits for the lock, and the clock has moved on.                         *)
C19_Witness ==
    /\ Len(stamped) = 2 /\ stamped[2].timestamp = 1 /\ now = 2
    /\ \E t, u \in Threads :
          /\ ts[t].pc = "append" /\ ts[t].timestamp = 1
          /\ ts[u].pc = "lock"

(***************************************************************************)
(* The locks of a registry and of its variables.  Two threads call set,    *)
(* rollback, freeze, thaw, get and history on the variables "x" and "max", *)
(* and watch, get_var, unregister, all_vars and snapshot on the registry.  *)
(* "x" has one validator,                                                  *)
(*     def below_max(v):                                                   *)
(*         if v > reg.get_var("max").get(): raise ValueError(...)          *)
(* which set calls while it holds the lock of "x".  A variable is known by *)
(* its name: watch constructs the variable of a name anew once no call is  *)
(* in progress on the one constructed before.                              *)
(***************************************************************************)
MaxLockHistory == 3

LockValues == {1, 2}

VarOps == {"freeze", "thaw", "get", "history"}

RegOps == {"watch", "get_var", "unregister", "all_vars"}

HasLookup(v) == v = "x"

Listed(names, name) == \E i \in 1 .. Len(names) : names[i] = name

Without(names, name) == SelectSeq(names, LAMBDA n : n # name)

VarAvailable(t, v) == lvar[v].owner = "" \/ lvar[v].owner = t

VarAcquired(t, v) == [owner |-> t, count |-> lvar[v].count + 1]

RegAvailable == lreg = ""

LockValue(v) == lhist[v][Len(lhist[v])]

LockFrame ==
    UNCHANGED <<mainVars, copyVars, regVars, counterVars, clockVars, listVars>>

InCall(t) == lt[t].pc # "idle"

LockRoom(v) ==
    Len(lhist[v]) + Cardinality({u \in Threads :
                                    InCall(u) /\ lt[u].var = v
                                    /\ lt[u].op \in {"set", "rollback"}})
        < MaxLockHistory

(* var.set(value) is called *)
LCallSet(t, v, value) ==
    /\ ~InCall(t) /\ LockRoom(v)
    /\ lt' = [lt EXCEPT ![t] = [LockIdle EXCEPT !.pc = "set_lock", !.op = "set",
                                               !.var = v, !.value = value]]
    /\ UNCHANGED <<lreg, lvar, lmap, lfrozen, lhist>>
    /\ LockFrame

(* var.rollback(0) is called *)
LCallRollback(t, v) ==
    /\ ~InCall(t) /\ LockRoom(v)
    /\ lt' = [lt EXCEPT ![t] = [LockIdle EXCEPT !.pc = "rollback_lock",
                                               !.op = "rollback", !.var = v]]
    /\ UNCHANGED <<lreg, lvar, lmap, lfrozen, lhist>>
    /\ LockFrame

(* var.freeze(), var.thaw(), var.get() or var.history() is called *)
LCallVar(t, op, v) ==
    /\ ~InCall(t)
    /\ lt' = [lt EXCEPT ![t] = [LockIdle EXCEPT !.pc = "var_op", !.op = op,
                                               !.var = v]]
    /\ UNCHANGED <<lreg, lvar, lmap, lfrozen, lhist>>
    /\ LockFrame

(* reg.watch(name, 1), reg.get_var(name), reg.unregister(name) or *)
(* reg.all_vars() is called                                        *)
LCallReg(t, op, name) ==
    /\ ~InCall(t)
    /\ lt' = [lt EXCEPT ![t] = [LockIdle EXCEPT !.pc = "reg_op", !.op = op,
                                               !.var = name]]
    /\ UNCHANGED <<lreg, lvar, lmap, lfrozen, lhist>>
    /\ LockFrame

(* reg.snapshot() is called *)
LCallSnapshot(t) ==
    /\ ~InCall(t)
    /\ lt' = [lt EXCEPT ![t] = [LockIdle EXCEPT !.pc = "snap_lock",
                                               !.op = "snapshot"]]
    /\ UNCHANGED <<lreg, lvar, lmap, lfrozen, lhist>>
    /\ LockFrame

(* freeze, thaw, get, history: with self._lock: ... *)
LVarOp(t) ==
    /\ lt[t].pc = "var_op"
    /\ VarAvailable(t, lt[t].var)
    /\ lfrozen' = CASE lt[t].op = "freeze" -> [lfrozen EXCEPT ![lt[t].var] = TRUE]
                    [] lt[t].op = "thaw" -> [lfrozen EXCEPT ![lt[t].var] = FALSE]
                    [] OTHER -> lfrozen
    /\ lt' = [lt EXCEPT ![t] = LockIdle]
    /\ UNCHANGED <<lreg, lvar, lmap, lhist>>
    /\ LockFrame

(* rollback: its locked section (frozen check, range check, target read), *)
(* then set is called with the target                                     *)
LRollbackRead(t) ==
    /\ lt[t].pc = "rollback_lock"
    /\ VarAvailable(t, lt[t].var)
    /\ lt' = [lt EXCEPT ![t] = IF lfrozen[lt[t].var]
                               THEN LockIdle
                               ELSE [@ EXCEPT !.pc = "set_lock",
                                              !.value = lhist[lt[t].var][1]]]
    /\ UNCHANGED <<lreg, lvar, lmap, lfrozen, lhist>>
    /\ LockFrame

(* set: with self._lock: the frozen check; the validator loop is entered *)
LSetLock(t) ==
    /\ lt[t].pc = "set_lock"
    /\ VarAvailable(t, lt[t].var)
    /\ IF lfrozen[lt[t].var]
       THEN /\ lt' = [lt EXCEPT ![t] = LockIdle]
            /\ UNCHANGED lvar
       ELSE /\ lvar' = [lvar EXCEPT ![lt[t].var] = VarAcquired(t, lt[t].var)]
            /\ lt' = [lt EXCEPT ![t].pc = IF HasLookup(lt[t].var)
                                          THEN "validate_lookup"
                                          ELSE "set_append"]
    /\ UNCHANGED <<lreg, lmap, lfrozen, lhist>>
    /\ LockFrame

(* below_max: reg.get_var("max"), which takes the lock of the registry; *)
(* its AlmaError leaves set                                             *)
LValidateLookup(t) ==
    /\ lt[t].pc = "validate_lookup"
    /\ RegAvailable
    /\ IF Listed(lmap, "max")
       THEN /\ lt' = [lt EXCEPT ![t].pc = "validate_read"]
            /\ UNCHANGED lvar
       ELSE /\ lt' = [lt EXCEPT ![t] = LockIdle]
            /\ lvar' = [lvar EXCEPT ![lt[t].var] = Released(@)]
    /\ UNCHANGED <<lreg, lmap, lfrozen, lhist>>
    /\ LockFrame

(* below_max: .get() on "max", and the comparison; its ValueError leaves *)
(* set                                                                   *)
LValidateRead(t) ==
    /\ lt[t].pc = "validate_read"
    /\ VarAvailable(t, "max")
    /\ IF lt[t].value > LockValue("max")
       THEN /\ lt' = [lt EXCEPT ![t] = LockIdle]
            /\ lvar' = [lvar EXCEPT ![lt[t].var] = Released(@)]
       ELSE /\ lt' = [lt EXCEPT ![t].pc = "set_append"]
            /\ UNCHANGED lvar
    /\ UNCHANGED <<lreg, lmap, lfrozen, lhist>>
    /\ LockFrame

(* set: the record is appended, the lock released; return self *)
LSetAppend(t) ==
    /\ lt[t].pc = "set_append"
    /\ lhist' = [lhist EXCEPT ![lt[t].var] = Append(@, lt[t].value)]
    /\ lvar' = [lvar EXCEPT ![lt[t].var] = Released(@)]
    /\ lt' = [lt EXCEPT ![t] = LockIdle]
    /\ UNCHANGED <<lreg, lmap, lfrozen>>
    /\ LockFrame

(* No other call is in progress on the variable constructed under name *)
(* before.                                                             *)
Dropped(t, name) == \A u \in Threads \ {t} : InCall(u) => lt[u].var # name

(* watch, get_var, unregister, all_vars: with self._lock: ... *)
LRegOp(t) ==
    /\ lt[t].pc = "reg_op"
    /\ RegAvailable
    /\ LET name == lt[t].var IN
       IF lt[t].op = "watch" /\ ~Listed(lmap, name)
       THEN /\ Dropped(t, name)
            /\ lmap' = Append(lmap, name)
            /\ lhist' = [lhist EXCEPT ![name] = <<1>>]
            /\ lfrozen' = [lfrozen EXCEPT ![name] = FALSE]
       ELSE IF lt[t].op = "unregister" /\ Listed(lmap, name)
       THEN /\ lmap' = Without(lmap, name)
            /\ UNCHANGED <<lhist, lfrozen>>
       ELSE UNCHANGED <<lmap, lhist, lfrozen>>
    /\ lt' = [lt EXCEPT ![t] = LockIdle]
    /\ UNCHANGED <<lreg, lvar>>
    /\ LockFrame

(* snapshot: with self._lock: the iteration over self._vars.items() starts *)
LSnapLock(t) ==
    /\ lt[t].pc = "snap_lock"
    /\ RegAvailable
    /\ lreg' = t
    /\ lt' = [lt EXCEPT ![t].pc = "snap_next", ![t].todo = lmap]
    /\ UNCHANGED <<lvar, lmap, lfrozen, lhist>>
    /\ LockFrame

(* snapshot: var.get() takes the lock of the next variable *)
LSnapGet(t) ==
    /\ lt[t].pc = "snap_next" /\ lt[t].todo # <<>>
    /\ VarAvailable(t, Head(lt[t].todo))
    /\ lvar' = [lvar EXCEPT ![Head(lt[t].todo)] = VarAcquired(t, Head(lt[t].todo))]
    /\ lt' = [lt EXCEPT ![t].pc = "snap_read"]
    /\ UNCHANGED <<lreg, lmap, lfrozen, lhist>>
    /\ LockFrame

(* snapshot: var.get() returns the value and releases the variable's lock *)
LSnapRead(t) ==
    /\ lt[t].pc = "snap_read"
    /\ lvar' = [lvar EXCEPT ![Head(lt[t].todo)] = Released(@)]
    /\ lt' = [lt EXCEPT ![t].pc = "snap_next", ![t].todo = Tail(@)]
    /\ UNCHANGED <<lreg, lmap, lfrozen, lhist>>
    /\ LockFrame

(* snapshot: the dict is complete; the lock of the registry is released *)
LSnapExit(t) ==
    /\ lt[t].pc = "snap_next" /\ lt[t].todo = <<>>
    /\ lreg' = ""
    /\ lt' = [lt EXCEPT ![t] = LockIdle]
    /\ UNCHANGED <<lvar, lmap, lfrozen, lhist>>
    /\ LockFrame

LockNext ==
    \/ \E t \in Threads, v \in LVars, value \in LockValues : LCallSet(t, v, value)
    \/ \E t \in Threads, v \in LVars : LCallRollback(t, v)
    \/ \E t \in Threads, op \in VarOps, v \in LVars : LCallVar(t, op, v)
    \/ \E t \in Threads, op \in RegOps, name \in LVars : LCallReg(t, op, name)
    \/ \E t \in Threads : LCallSnapshot(t)
    \/ \E t \in Threads : LVarOp(t)
    \/ \E t \in Threads : LRollbackRead(t)
    \/ \E t \in Threads : LSetLock(t)
    \/ \E t \in Threads : LValidateLookup(t)
    \/ \E t \in Threads : LValidateRead(t)
    \/ \E t \in Threads : LSetAppend(t)
    \/ \E t \in Threads : LRegOp(t)
    \/ \E t \in Threads : LSnapLock(t)
    \/ \E t \in Threads : LSnapGet(t)
    \/ \E t \in Threads : LSnapRead(t)
    \/ \E t \in Threads : LSnapExit(t)

LockSpec == Init /\ [][LockNext]_vars

(* C21: no thread holds the lock of the registry and the lock of a         *)
(* variable at the same time.                                              *)
C21_NoNestedLocks ==
    \A t \in Threads, v \in LVars : ~(lreg = t /\ lvar[v].owner = t)

(* The thread waits for a lock that another thread holds. *)
Blocked(t) ==
    CASE lt[t].pc \in {"var_op", "rollback_lock", "set_lock"} ->
            ~VarAvailable(t, lt[t].var)
      [] lt[t].pc \in {"validate_lookup", "reg_op", "snap_lock"} -> ~RegAvailable
      [] lt[t].pc = "validate_read" -> ~VarAvailable(t, "max")
      [] lt[t].pc = "snap_next" /\ lt[t].todo # <<>> ->
            ~VarAvailable(t, Head(lt[t].todo))
      [] OTHER -> FALSE

(* C22: no reachable state is a deadlock: while a call is in progress, the *)
(* thread of some call in progress is not waiting for a lock.              *)
C22_NoDeadlock ==
    (\E t \in Threads : InCall(t)) =>
        \E t \in Threads : InCall(t) /\ ~Blocked(t)

(***************************************************************************)
(* The lists that hold validators and listeners.  A list is an object, a   *)
(* position of  lists;  refs  tells which list the caller holds and which  *)
(* list each of the variables "a" and "b" has as self._validators and as   *)
(* self._listeners, 0 where there is none.  The caller makes its lists,    *)
(* constructs the variables (directly or through watch, which passes its   *)
(* arguments on), with or without its lists, and registers callables.      *)
(***************************************************************************)
MaxListLen == 2

Kinds == {"validators", "listeners"}

ListVars == {"a", "b"}

(* What the caller's list holds when it is not empty, and the callable *)
(* registered later.                                                   *)
ListContents == {<<>>, <<"f">>}

AddedFns == {"g"}

Constructed(v) == refs[v].validators # 0

(* Python's  arg or []:  arg itself unless it is None or empty. *)
OrNewList(heap, arg) ==
    IF arg # 0 /\ Len(heap[arg]) > 0
    THEN [heap |-> heap, ref |-> arg]
    ELSE [heap |-> Append(heap, <<>>), ref |-> Len(heap) + 1]

(* The callables set runs on v: self._validators, or self._listeners. *)
RunBy(ls, rs, v, kind) == ls[rs[v][kind]]

ListFrame ==
    UNCHANGED <<mainVars, copyVars, regVars, counterVars, clockVars, lockVars>>

(* checks = [...]: the caller makes the list it will pass as validators, *)
(* or as on_change                                                       *)
MakeList(kind, content) ==
    /\ refs.caller[kind] = 0
    /\ lists' = Append(lists, content)
    /\ refs' = [refs EXCEPT !.caller[kind] = Len(lists) + 1]
    /\ last' = [op |-> "list", var |-> "", kind |-> kind]
    /\ ListFrame

(* AlmaVar(v, 0, validators=..., on_change=...), called by the caller or *)
(* by watch; an argument is the caller's list, or None                   *)
ConstructWith(v, passValidators, passListeners, throughWatch) ==
    /\ ~Constructed(v)
    /\ LET vs == OrNewList(lists, IF passValidators THEN refs.caller.validators
                                                    ELSE 0)
           ls == OrNewList(vs.heap, IF passListeners THEN refs.caller.listeners
                                                     ELSE 0)
       IN /\ lists' = ls.heap
          /\ refs' = [refs EXCEPT ![v] = [validators |-> vs.ref,
                                          listeners |-> ls.ref]]
    /\ last' = [op |-> IF throughWatch THEN "watch" ELSE "construct",
                var |-> v, kind |-> ""]
    /\ ListFrame

(* v.add_validator(fn) or v.add_listener(fn): the list's append *)
AddTo(v, kind, fn) ==
    /\ Constructed(v)
    /\ Len(lists[refs[v][kind]]) < MaxListLen
    /\ lists' = [lists EXCEPT ![refs[v][kind]] = Append(@, fn)]
    /\ last' = [op |-> "add", var |-> v, kind |-> kind]
    /\ UNCHANGED refs
    /\ ListFrame

ListNext ==
    \/ \E kind \in Kinds, content \in ListContents : MakeList(kind, content)
    \/ \E v \in ListVars, pv \in BOOLEAN, pl \in BOOLEAN, w \in BOOLEAN :
          ConstructWith(v, pv, pl, w)
    \/ \E v \in ListVars, kind \in Kinds, fn \in AddedFns : AddTo(v, kind, fn)

ListSpec == Init /\ [][ListNext]_vars

(* C23: a step of add_validator or add_listener on one variable changes    *)
(* neither the validators nor the listeners that set runs on the other     *)
(* variable, nor either list of the caller.                                *)
C23_PerVariable ==
    [][\A v \in ListVars :
          (last'.op = "add" /\ last'.var = v /\ lists' # lists) =>
              /\ \A w \in ListVars \ {v}, k \in Kinds :
                    Constructed(w) =>
                        RunBy(lists', refs', w, k) = RunBy(lists, refs, w, k)
              /\ \A k \in Kinds :
                    refs.caller[k] # 0 =>
                        lists'[refs.caller[k]] = lists[refs.caller[k]]]_vars

====
